---- MODULE Spec2Model ----
(***************************************************************************)
(* Model of arxiv_pdf_scraper.py: one run of scrape_arxiv, with the two    *)
(* helpers descargar_pdf and guardar_en_csv.                               *)
(*                                                                         *)
(* Strings are sequences of one-character strings, so that split("/") and  *)
(* the f-strings are computed character by character.  The file system is  *)
(* a function from paths to contents, the list file a sequence of rows.    *)
(* The browser page and the HTTP server are the environment: what they     *)
(* answer is chosen with \E from small sets.                               *)
(***************************************************************************)
EXTENDS Integers, Sequences, FiniteSets, TLC

VARIABLES
    pc,          \* position of scrape_arxiv
    wait,        \* outcome of page.wait_for_selector: "pending", "ok", "timeout"
    count,       \* links.count()
    elems,       \* what get_attribute("href") returned so far, NoneVal when absent
    i,           \* loop index of "for i in range(count)", 1-based
    pdf_links,   \* the local list pdf_links
    files,       \* output directory: path -> content (bytes)
    csv,         \* rows of the list file CSV_FILE
    last,        \* the most recent call of descargar_pdf: arguments, answer, result
    written,     \* paths opened for writing by descargar_pdf in this run
    calls,       \* number of calls of descargar_pdf in this run
    csv_calls,   \* number of calls of guardar_en_csv in this run
    csv_ok,      \* guardar_en_csv's try block ended without exception
    pre_csv,     \* the list file before the run
    pre_files    \* the output directory before the run

vars == <<pc, wait, count, elems, i, pdf_links, files, csv, last, written, calls,
          csv_calls, csv_ok, pre_csv, pre_files>>

----------------------------------------------------------------------------
(* Bounds *)

MaxLinks == 2

----------------------------------------------------------------------------
(* Values *)

\* Python's None (an absent href, a failed download, an absent header)
NoneVal == <<"<None>">>

HTTP_OK == 200

DATA_DIR == <<"d","a","t","a">>

PdfBase == <<"h","t","t","p","s",":","/","/","a","r","x","i","v",".","o","r","g","/","p","d","f","/">>

PdfExt == <<".","p","d","f">>

ExampleId == <<"2","3","0","1",".","0","4","5","6","7">>

\* 'https://arxiv.org/pdf/2301.04567'
ExampleUrl == PdfBase \o ExampleId

\* 'http://arxiv.org/pdf/2301.04567': another link with the same final segment
SameIdUrl == <<"h","t","t","p",":","/","/","a","r","x","i","v",".","o","r","g","/","p","d","f","/">> \o ExampleId

\* 'https://arxiv.org/pdf/2301.04567/': a link that ends with the separator
SlashUrl == ExampleUrl \o <<"/">>

\* 'https://arxiv.org/pdf/7': a link recorded by an earlier run
OtherUrl == PdfBase \o <<"7">>

\* what get_attribute("href") can return for an element of the locator
Hrefs == {NoneVal, ExampleUrl, SameIdUrl, SlashUrl}

\* the chunks response.iter_content can yield for one body; "A" and "B" each
\* stand for one non-empty block of bytes, a file's content is the sequence
\* of the blocks written to it
Bodies == {<<>>, <<"A">>, <<"B","A">>}

\* the values of the content-length header: absent, or a string
GoodContentLengths == {NoneVal, <<"2">>}

BadContentLengths == {<<"x">>}

Digits == {"0","1","2","3","4","5","6","7","8","9"}

DigitVal(c) == CASE c = "0" -> 0 [] c = "1" -> 1 [] c = "2" -> 2 [] c = "3" -> 3
                 [] c = "4" -> 4 [] c = "5" -> 5 [] c = "6" -> 6 [] c = "7" -> 7
                 [] c = "8" -> 8 [] c = "9" -> 9

\* the answers of the server to requests.get: a failure to connect, a status
\* other than 200, or a 200 with its content-length header and the chunks its
\* body stream yields before it ends, normally (complete) or with a
\* RequestException.  A body is enumerated only where the code reads it.
Responses ==
    {[kind |-> "connect_error", status |-> 0, cl |-> NoneVal, chunks |-> <<>>,
      complete |-> FALSE]}
    \cup {[kind |-> "response", status |-> 404, cl |-> NoneVal, chunks |-> <<>>,
           complete |-> FALSE]}
    \cup {[kind |-> "response", status |-> HTTP_OK, cl |-> c, chunks |-> b,
           complete |-> k] : c \in GoodContentLengths, b \in Bodies, k \in BOOLEAN}
    \cup {[kind |-> "response", status |-> HTTP_OK, cl |-> c, chunks |-> <<>>,
           complete |-> TRUE] : c \in BadContentLengths}

\* contents the list file and the output directory can have before the run
OldRow == <<OtherUrl>>

OldBody == <<"O">>

EmptyDir == [q \in {} |-> <<>>]

PreCsvs == {<<>>, <<OldRow>>}

PreDirs == {EmptyDir, [q \in {DATA_DIR \o <<"/">> \o ExampleId \o PdfExt} |-> OldBody]}

----------------------------------------------------------------------------
(* Pure helpers *)

\* str.split(sep): the pieces between the occurrences of sep
RECURSIVE Split(_, _)
Split(s, sep) ==
    IF \A k \in 1..Len(s) : s[k] # sep
    THEN <<s>>
    ELSE LET k == CHOOSE k \in 1..Len(s) :
                      s[k] = sep /\ \A j \in 1..(k-1) : s[j] # sep
         IN  <<SubSeq(s, 1, k-1)>> \o Split(SubSeq(s, k+1, Len(s)), sep)

\* file_url.split("/")[-1]
FileId(file_url) == LET parts == Split(file_url, "/") IN parts[Len(parts)]

\* f"https://arxiv.org/pdf/{file_id}.pdf"
PdfUrl(file_id) == PdfBase \o file_id \o PdfExt

\* os.path.join(output_dir, f"{file_id}.pdf"); the second part never starts with "/"
FilePath(output_dir, file_id) ==
    IF Len(output_dir) > 0 /\ output_dir[Len(output_dir)] = "/"
    THEN output_dir \o file_id \o PdfExt
    ELSE output_dir \o <<"/">> \o file_id \o PdfExt

\* int(s) on a str: defined on digit strings only
IsInt(s) == Len(s) > 0 /\ \A k \in 1..Len(s) : s[k] \in Digits

RECURSIVE IntOf(_)
IntOf(s) == IF Len(s) = 0 THEN 0
            ELSE 10 * IntOf(SubSeq(s, 1, Len(s) - 1)) + DigitVal(s[Len(s)])

\* response.headers.get("content-length", 0)
HeaderGet(cl) == IF cl = NoneVal THEN <<"0">> ELSE cl

\* "if href:" : None and the empty string are false
Truthy(href) == href # NoneVal /\ href # <<>>

\* the file system with path p holding content c
FileSet(fs, p, c) == [q \in (DOMAIN fs) \cup {p} |-> IF q = p THEN c ELSE fs[q]]

\* open(file_path, "ab"), what OpenWb is not
OpenAb(fs, p) == IF p \in DOMAIN fs THEN fs ELSE FileSet(fs, p, <<>>)

\* open(file_path, "wb"): creates the file or truncates it
OpenWb(fs, p) == FileSet(fs, p, <<>>)

\* the file reopened for every chunk, so that only the last one stays: what
\* WriteChunks is not
WriteChunksLast(fs, p, chunks) ==
    FileSet(fs, p, IF chunks = <<>> THEN fs[p] ELSE <<chunks[Len(chunks)]>>)

\* f.write(chunk) for each chunk the stream yields
WriteChunks(fs, p, chunks) == FileSet(fs, p, fs[p] \o chunks)

\* "if response.status_code >= 200", what StatusOk is not
StatusAtLeastOk(status) == status >= HTTP_OK

\* "if response.status_code == 200"
StatusOk(status) == status = HTTP_OK

\* descargar_pdf(file_url, output_dir) against the answer resp, from the file
\* system fs: the file system it leaves, what it returns, what it raises, and
\* whether it opened the target file
DescargarPdf(fs, file_url, output_dir, resp) ==
    LET file_id   == FileId(file_url)
        pdf_url   == PdfUrl(file_id)
        file_path == FilePath(output_dir, file_id)
        base      == [file_id |-> file_id, pdf_url |-> pdf_url, path |-> file_path]
        opened    == OpenWb(fs, file_path)
        streamed  == WriteChunks(opened, file_path, resp.chunks)
    IN  IF resp.kind = "connect_error"
        THEN \* requests.get raises a RequestException: caught, return None
             base @@ [files |-> fs, ret |-> NoneVal, raised |-> "none",
                      opened |-> FALSE]
        ELSE IF StatusOk(resp.status)
        THEN IF ~IsInt(HeaderGet(resp.cl))
             THEN \* int() raises ValueError after open(): not a RequestException
                  base @@ [files |-> opened, ret |-> NoneVal, raised |-> "ValueError",
                           opened |-> TRUE]
             ELSE IF resp.complete
             THEN base @@ [files |-> streamed, ret |-> file_path, raised |-> "none",
                           opened |-> TRUE]
             ELSE \* iter_content raises a RequestException: caught, return None
                  base @@ [files |-> streamed, ret |-> NoneVal, raised |-> "none",
                           opened |-> TRUE]
        ELSE base @@ [files |-> fs, ret |-> NoneVal, raised |-> "none",
                      opened |-> FALSE]

\* guardar_en_csv opened with "w", what AppendRows is not
OverwriteRows(old, links) == [k \in 1..Len(links) |-> <<links[k]>>]

\* open(file_path, "a") and writer.writerow([link]) for each link: a row is
\* the list of its fields
AppendRows(old, links) == old \o [k \in 1..Len(links) |-> <<links[k]>>]

----------------------------------------------------------------------------
(* The run *)

NoCall == [href |-> NoneVal, file_id |-> <<>>, pdf_url |-> <<>>, path |-> <<>>,
           resp |-> CHOOSE r \in Responses : r.kind = "connect_error",
           ret |-> NoneVal, raised |-> "none", existed |-> FALSE,
           prev |-> <<>>, repeat |-> FALSE]

Init ==
    /\ pc = "search"
    /\ wait = "pending"
    /\ count = 0
    /\ elems = <<>>
    /\ i = 1
    /\ pdf_links = <<>>
    /\ pre_files \in PreDirs
    /\ files = pre_files
    /\ pre_csv \in PreCsvs
    /\ csv = pre_csv
    /\ last = NoCall
    /\ written = {}
    /\ calls = 0
    /\ csv_calls = 0
    /\ csv_ok = FALSE

\* goto, fill, click, wait_for_selector succeeds: at least one link is there,
\* links.count() is what the page holds
WaitOk ==
    /\ pc = "search"
    /\ wait' = "ok"
    /\ count' \in 1..MaxLinks
    /\ i' = 1
    /\ pdf_links' = <<>>
    /\ pc' = "loop"
    /\ UNCHANGED <<elems, files, csv, last, written, calls, csv_calls, csv_ok,
                   pre_csv, pre_files>>

\* a timeout that is swallowed, what WaitTimeout is not
WaitTimeoutSwallowed ==
    /\ pc = "search"
    /\ wait' = "timeout"
    /\ count' \in 1..MaxLinks
    /\ pc' = "loop"
    /\ UNCHANGED <<elems, i, pdf_links, files, csv, last, written, calls, csv_calls,
                   csv_ok, pre_csv, pre_files>>

\* wait_for_selector raises TimeoutError: it leaves scrape_arxiv
WaitTimeout ==
    /\ pc = "search"
    /\ wait' = "timeout"
    /\ pc' = "aborted"
    /\ UNCHANGED <<count, elems, i, pdf_links, files, csv, last, written, calls,
                   csv_calls, csv_ok, pre_csv, pre_files>>

\* one iteration: links.nth(i).get_attribute("href") gives no href
LoopSkip ==
    /\ pc = "loop"
    /\ i <= count
    /\ \E href \in Hrefs :
          /\ ~Truthy(href)
          /\ elems' = Append(elems, href)
    /\ i' = i + 1
    /\ UNCHANGED <<pc, wait, count, pdf_links, files, csv, last, written, calls,
                   csv_calls, csv_ok, pre_csv, pre_files>>

\* the effect of one iteration with an href, against the answer resp
Iteration(href, resp, rows) ==
    LET r == DescargarPdf(files, href, DATA_DIR, resp)
    IN  /\ elems' = Append(elems, href)
        /\ pdf_links' = Append(pdf_links, href)
        /\ files' = r.files
        /\ csv' = rows
        /\ last' = [href |-> href, file_id |-> r.file_id, pdf_url |-> r.pdf_url,
                    path |-> r.path, resp |-> resp, ret |-> r.ret,
                    raised |-> r.raised,
                    existed |-> r.path \in DOMAIN files,
                    prev |-> IF r.path \in DOMAIN files THEN files[r.path] ELSE <<>>,
                    repeat |-> r.path \in written]
        /\ written' = IF r.opened THEN written \cup {r.path} ELSE written
        /\ calls' = calls + 1
        /\ IF r.raised = "none"
           THEN i' = i + 1 /\ pc' = "loop"
           ELSE i' = i /\ pc' = "aborted"
        /\ UNCHANGED <<wait, count, csv_calls, csv_ok, pre_csv, pre_files>>

\* an iteration that records its link in the list file at once, what
\* LoopDownload is not
LoopDownloadRecording ==
    /\ pc = "loop"
    /\ i <= count
    /\ \E href \in Hrefs, resp \in Responses :
          Truthy(href) /\ Iteration(href, resp, AppendRows(csv, <<href>>))

\* one iteration: get_attribute gives an href; append it, call descargar_pdf
LoopDownload ==
    /\ pc = "loop"
    /\ i <= count
    /\ \E href \in Hrefs, resp \in Responses :
          Truthy(href) /\ Iteration(href, resp, csv)

\* guardar_en_csv without its try/except, what GuardarEnCsv is not
GuardarEnCsvRaising ==
    /\ pc = "loop"
    /\ i > count
    /\ csv_calls' = csv_calls + 1
    /\ \/ /\ csv' = AppendRows(csv, pdf_links)
          /\ csv_ok' = TRUE
          /\ pc' = "screenshot"
       \/ /\ \E n \in 0..Len(pdf_links) : csv' = AppendRows(csv, SubSeq(pdf_links, 1, n))
          /\ csv_ok' = FALSE
          /\ pc' = "aborted"
    /\ UNCHANGED <<wait, count, elems, i, pdf_links, files, last, written, calls,
                   pre_csv, pre_files>>

\* the loop is over: guardar_en_csv(pdf_links, CSV_FILE).  Either every row is
\* written, or open/write raises after n rows reached the file and the
\* exception is caught
GuardarEnCsv ==
    /\ pc = "loop"
    /\ i > count
    /\ csv_calls' = csv_calls + 1
    /\ \/ /\ csv' = AppendRows(csv, pdf_links)
          /\ csv_ok' = TRUE
       \/ /\ \E n \in 0..Len(pdf_links) : csv' = AppendRows(csv, SubSeq(pdf_links, 1, n))
          /\ csv_ok' = FALSE
    /\ pc' = "screenshot"
    /\ UNCHANGED <<wait, count, elems, i, pdf_links, files, last, written, calls,
                   pre_csv, pre_files>>

\* page.screenshot(path="example.png"), page.title()
Screenshot ==
    /\ pc = "screenshot"
    /\ pc' = "close"
    /\ UNCHANGED <<wait, count, elems, i, pdf_links, files, csv, last, written, calls,
                   csv_calls, csv_ok, pre_csv, pre_files>>

\* browser.close(), and scrape_arxiv returns
Close ==
    /\ pc = "close"
    /\ pc' = "done"
    /\ UNCHANGED <<wait, count, elems, i, pdf_links, files, csv, last, written, calls,
                   csv_calls, csv_ok, pre_csv, pre_files>>

Next ==
    \/ WaitOk
    \/ WaitTimeout
    \/ LoopSkip
    \/ LoopDownload
    \/ GuardarEnCsv
    \/ Screenshot
    \/ Close

Spec == Init /\ [][Next]_vars

----------------------------------------------------------------------------
(* Properties *)

\* the links the page enumeration met that have an href, in encounter order
LinksWithHref == SelectSeq(elems, Truthy)

\* one row per link
RowsOf(links) == [k \in 1..Len(links) |-> <<links[k]>>]

\* the target of the most recent call, computed from its identifier
LastTarget == DATA_DIR \o <<"/">> \o last.file_id \o <<".","p","d","f">>

\* the most recent call got an answer with status 200 and returned a path
LastSucceeded ==
    /\ calls > 0
    /\ last.resp.kind = "response"
    /\ last.resp.status = 200
    /\ last.raised = "none"
    /\ last.ret # NoneVal

\* C1: after a run whose search-wait succeeded and whose guardar_en_csv wrote
\* without failing, the list file is its pre-existing rows followed by one
\* row per enumerated element that has an href, in encounter order (elements
\* without href give no row, duplicates stay, failed downloads are recorded)
C1_ListFileAfterRun ==
    (wait = "ok" /\ csv_calls > 0 /\ csv_ok) =>
        /\ Len(elems) = count
        /\ csv = pre_csv \o RowsOf(LinksWithHref)

\* a finished run over an element without href and a link whose download
\* failed, appended after an existing row
C1_Witness ==
    /\ pc = "done" /\ csv_ok
    /\ pre_csv # <<>>
    /\ \E k \in 1..Len(elems) : elems[k] = NoneVal
    /\ pdf_links # <<>>
    /\ last.ret = NoneVal

\* C2: a download answered with a status other than 200 creates no file and
\* modifies no file of the output directory, returns None, and the loop goes
\* on to the next element
C2_Non200LeavesFiles ==
    [][(calls' = calls + 1 /\ last'.resp.kind = "response"
            /\ last'.resp.status # 200)
        => (files' = files /\ last'.ret = NoneVal /\ pc' = "loop" /\ i' = i + 1)]_vars

\* a non-200 answer for a link whose target file already exists, with another
\* element still to come
C2_Witness ==
    /\ calls > 0
    /\ last.resp.kind = "response" /\ last.resp.status # 200
    /\ last.existed
    /\ pc = "loop" /\ i <= count

\* C3: when the wait for the result selector times out, descargar_pdf and
\* guardar_en_csv are never called in that run and the list file (and the
\* output directory) stay as they were before the run
C3_TimeoutNoOutput ==
    (wait = "timeout") =>
        /\ pc = "aborted"
        /\ calls = 0
        /\ csv_calls = 0
        /\ csv = pre_csv
        /\ files = pre_files

\* a timed-out run over a list file that had a row
C3_Witness == wait = "timeout" /\ pre_csv # <<>> /\ pc = "aborted"

\* C4: whatever the per-link outcome of descargar_pdf, no exception leaves
\* descargar_pdf and the run is never aborted once the search-wait succeeded
C4_DownloadNeverAborts ==
    (wait = "ok") => (last.raised = "none" /\ pc # "aborted")

\* C5 as stated: after a successful return for a 200 answer the file
\* <id>.pdf exists under the output directory, the returned path is that
\* file, its content is the streamed body, and it is non-empty when the
\* content-length is greater than 0
C5_AsStated ==
    LastSucceeded =>
        /\ last.ret = LastTarget
        /\ LastTarget \in DOMAIN files
        /\ files[LastTarget] = last.resp.chunks
        /\ (IntOf(HeaderGet(last.resp.cl)) > 0 => files[LastTarget] # <<>>)

\* C5 amended: after a successful return for a 200 answer the file <id>.pdf
\* exists under the output directory, the returned path is that file, and its
\* content is the full streamed body, so it is non-empty exactly when the
\* streamed body is (whatever the content-length header says)
C5_FileHoldsBody ==
    LastSucceeded =>
        /\ last.ret = LastTarget
        /\ LastTarget \in DOMAIN files
        /\ files[LastTarget] = last.resp.chunks
        /\ (files[LastTarget] # <<>> <=> last.resp.chunks # <<>>)

\* a successful download of a body of two chunks announced by a content-length
C5_Witness ==
    /\ LastSucceeded
    /\ Len(last.resp.chunks) = 2
    /\ IntOf(HeaderGet(last.resp.cl)) > 0

\* C6: when a download succeeds for a link whose identifier an earlier
\* download of the same run already wrote, the file <id>.pdf holds the body of
\* the later download and nothing of the earlier one
C6_SecondOverwritesFirst ==
    (LastSucceeded /\ last.repeat) =>
        /\ LastTarget \in DOMAIN files
        /\ files[LastTarget] = last.resp.chunks

\* two different links with the same identifier, both downloaded with
\* different non-empty bodies
C6_Witness ==
    /\ LastSucceeded /\ last.repeat
    /\ Len(pdf_links) = 2 /\ pdf_links[1] # pdf_links[2]
    /\ FileId(pdf_links[1]) = FileId(pdf_links[2])
    /\ last.prev # <<>> /\ last.resp.chunks # <<>>
    /\ last.prev # last.resp.chunks

\* C7: for every link given to descargar_pdf the identifier is the final
\* "/"-separated segment of the link, it is non-empty and holds no "/", the
\* requested URL is 'https://arxiv.org/pdf/' + identifier + '.pdf', the target
\* is output_dir/<identifier>.pdf, and 'https://arxiv.org/pdf/2301.04567'
\* gives '2301.04567' and 'https://arxiv.org/pdf/2301.04567.pdf'
C7_Identifier ==
    (calls > 0) =>
        LET id  == last.file_id
            url == last.href
            n   == Len(url) - Len(id)
        IN  /\ n >= 0
            /\ SubSeq(url, n + 1, Len(url)) = id
            /\ (n = 0 \/ url[n] = "/")
            /\ \A k \in 1..Len(id) : id[k] # "/"
            /\ Len(id) > 0
            /\ last.pdf_url = <<"h","t","t","p","s",":","/","/","a","r","x","i","v",
                                ".","o","r","g","/","p","d","f","/">> \o id
                              \o <<".","p","d","f">>
            /\ last.path = LastTarget
            /\ (url = ExampleUrl =>
                    /\ id = <<"2","3","0","1",".","0","4","5","6","7">>
                    /\ last.pdf_url = ExampleUrl \o <<".","p","d","f">>)

\* C8: a failure to open or write the list file stays inside guardar_en_csv:
\* the output directory is unchanged by it, and the run goes on to the
\* screenshot, the browser close and its normal end
C8_CsvFailureCaught ==
    [][/\ (csv_calls' = csv_calls + 1 /\ ~csv_ok')
            => (files' = files /\ pc' = "screenshot")
       /\ (pc = "screenshot" /\ ~csv_ok) => (files' = files /\ pc' = "close")
       /\ (pc = "close" /\ ~csv_ok) => (files' = files /\ pc' = "done")]_vars

\* a run that ended normally after a failed write of the list file, with a
\* downloaded file in the output directory
C8_Witness ==
    /\ pc = "done" /\ csv_calls = 1 /\ ~csv_ok
    /\ \E k \in 1..Len(pdf_links) :
          /\ FilePath(DATA_DIR, FileId(pdf_links[k])) \in DOMAIN files
          /\ files[FilePath(DATA_DIR, FileId(pdf_links[k]))] # <<>>
          /\ files[FilePath(DATA_DIR, FileId(pdf_links[k]))] # OldBody

\* C9: no row reaches the list file before the download loop is over: while
\* guardar_en_csv has not been called the list file is what it was before the
\* run (also when the run is cut in the loop), and guardar_en_csv is called
\* only once every element has been handled
C9_NoRowBeforeLoopEnds ==
    /\ (csv_calls = 0 => csv = pre_csv)
    /\ (pc = "loop" => csv_calls = 0)
    /\ (csv_calls > 0 => (i > count /\ Len(elems) = count))

\* in the loop, one link downloaded to a file and another element pending
C9_Witness ==
    /\ pc = "loop" /\ i <= count
    /\ LastSucceeded /\ last.resp.chunks # <<>>
    /\ LastTarget \in DOMAIN files
    /\ csv = pre_csv

\* C10: whenever descargar_pdf returns None the output directory is as it was
\* before the attempt: no new <id>.pdf, and an earlier file of that name keeps
\* its content
C10_FailureLeavesFiles ==
    (calls > 0 /\ last.raised = "none" /\ last.ret = NoneVal) =>
        IF last.existed
        THEN last.path \in DOMAIN files /\ files[last.path] = last.prev
        ELSE last.path \notin DOMAIN files

====
